---- MODULE Spec2Model ----
(***************************************************************************)
(* byteside: the avatar state store (plugins/state.ts), the WebSocket      *)
(* gateway (routes/_ws.ts), the POST /state ingress                        *)
(* (routes/state.post.ts), the terminal renderer                           *)
(* (src/terminal/renderer.ts), its frame loader                            *)
(* (src/terminal/ascii-loader.ts) and the hook installer (src/hooks.ts).   *)
(*                                                                         *)
(* JavaScript runs every handler to completion on one thread, so each      *)
(* action below is one whole handler: setState together with the           *)
(* notification pass it starts, every listener that pass calls, every      *)
(* send those listeners make and every nested setState a listener issues.  *)
(* The synchronous call chain is computed by the operators setState /      *)
(* notifyListeners / Invoke / broadcast over a record "m" of the module    *)
(* level variables of the program.                                         *)
(***************************************************************************)
EXTENDS Naturals, Sequences, FiniteSets

\* ---------------------------------------------------------------- bounds
MaxWrites == 2      \* setState calls accepted from outside in one behaviour
MaxPeers == 2       \* connections accepted in one behaviour
MaxInflight == 2    \* POST /state requests whose body is being read at once
MaxPings == 1       \* pings answered in one behaviour
MaxSockets == 3     \* sockets the terminal renderer constructs in one behaviour
MaxFrames == 2      \* frame paths in one terminal state's configuration

\* ------------------------------------------------------------- constants
VALID_STATES ==
    {"idle", "thinking", "writing", "bash", "error", "success", "waiting"}

\* The labels the environment passes to setState / posts as valid bodies.
InputStates == {"idle", "error"}

\* Request bodies of POST /state as readBody returns them: no body at all,
\* or an object whose "state" field is absent, a number or a string.
Num(n) == [t |-> "number", v |-> n]
Str(s) == [t |-> "string", v |-> s]
NoBody == [t |-> "undefined"]
Obj(v) == [t |-> "object", state |-> v]
Bodies ==
    {NoBody, Obj(Str("sleeping")), Obj(Num(42))} \cup
    {Obj(Str(s)) : s \in InputStates}

\* The gateway's listener, registered when routes/_ws.ts is loaded.
Gw == "gw"

Peers == 1..MaxPeers

VARIABLES
    currentState,     \* plugins/state.ts: let currentState
    stateTimestamp,   \* plugins/state.ts: let stateTimestamp
    listeners,        \* plugins/state.ts: const listeners (a Set: insertion order)
    peers,            \* routes/_ws.ts: const peers (a Set: insertion order)
    clock,            \* the wall clock Date.now() reads
    conn,             \* each connection's socket: "connecting", "open", "errored", "closed"
    broken,           \* open connections whose send throws
    log,              \* per connection, the messages passed to its send since the
                      \* gateway last forgot it (on close or error), in call order
    sendFailed,       \* connections on which a send has thrown since then
    inflight,         \* per body, the POST requests awaiting readBody that will read it
    response,         \* what the last POST /state request was answered with
    trace,            \* the listener invocations made by the last call into the
                      \* store that changes it (setState, onStateChange, unsubscribe)
    passes,           \* history: the notification passes run so far
    writes,           \* history: per setState call from outside, its argument and result
    openAt,           \* history: per registered connection, Len(writes) at its open
    spent,            \* history: the callback whose unsubscribe function a client
                      \* called last, and still holds
    received,         \* history: the inbound message the gateway handled in the
                      \* last step, if that step was a message
    renderer,         \* terminal/renderer.ts: the TerminalRenderer object's fields
    timers,           \* the pending timers setInterval / setTimeout created
    sockets,          \* per WebSocket the renderer constructed: "open" (connecting
                      \* or open), "closing", "closed"; "none": not constructed
    resizeListeners,  \* the SIGWINCH listeners the renderer has on the process
    terminal,         \* the terminal: is the cursor hidden, is a frame drawn
    ran,              \* history: the handler that ran in the last step, its
                      \* arguments and the calls it made, in order
    stopped,          \* history: stop() has shut the renderer down and start()
                      \* has not been called since
    frameCache,       \* terminal/ascii-loader.ts: const frameCache (path to content)
    loaded,           \* history: the last loadStateFrames call, its arguments and
                      \* what its promise settled with
    settingsFile,     \* hooks.ts: the settings file at the path the hook commands
                      \* work on: absent, or present with the value it parses to
    original,         \* history: the settings file before the first hook command
    hookRun           \* history: the last hook command and its result

storeVars == <<currentState, stateTimestamp, listeners, peers, clock, conn, broken,
               log, sendFailed, inflight, response, trace, passes, writes, openAt,
               spent, received>>

rendererVars == <<renderer, timers, sockets, resizeListeners, terminal, ran, stopped>>

toolVars == <<frameCache, loaded, settingsFile, original, hookRun>>

vars == <<storeVars, rendererVars, toolVars>>

\* ------------------------------------------------------- sequence helpers
Range(s) == {s[i] : i \in 1..Len(s)}

RECURSIVE Sum(_, _)
Sum(f, S) ==
    IF S = {} THEN 0
    ELSE LET x == CHOOSE y \in S : TRUE IN f[x] + Sum(f, S \ {x})

\* Set.prototype.add on an insertion-ordered Set: a present value keeps its place.
SetAdd(s, x) == IF x \in Range(s) THEN s ELSE Append(s, x)

\* Set.prototype.delete outside any iteration.
SetDelete(s, x) == SelectSeq(s, LAMBDA y : y # x)

\* ------------------------------------------------------------ the program
\* The clients' callbacks passed to onStateChange.  Each is a fixed function:
\*   "a"  records its arguments;
\*   "u"  records, then calls the unsubscribe function of "a";
\*   "s"  records, then calls onStateChange(a);
\*   "r"  records, then calls setState("idle") when it is told "error";
\*   "t"  records, then throws.
ClientListeners == {"a", "u", "s", "r", "t"}

\* An emptied slot of a Set that is being iterated: Set.prototype.delete leaves
\* the entry list's positions in place, so a running iterator keeps its index.
Empty == "<empty>"

\* The program's module-level variables as one record, threaded through a
\* synchronous call chain.  ticks: what the clock advances by at each
\* Date.now() of the chain; exc: an exception is propagating; ret: the value
\* the call returned.
Machine(ticks) ==
    [cur |-> currentState, ts |-> stateTimestamp, ls |-> listeners,
     regs |-> peers, clock |-> clock, log |-> log, failed |-> sendFailed,
     trace |-> <<>>, passes |-> passes, ticks |-> ticks,
     exc |-> FALSE, ret |-> "void"]

\* Date.now(): the wall clock, which does not run backwards.
DateNow(m) ==
    LET d == IF m.ticks = <<>> THEN 0 ELSE Head(m.ticks)
    IN [m EXCEPT !.clock = m.clock + d,
                 !.ticks = IF m.ticks = <<>> THEN <<>> ELSE Tail(m.ticks)]

\* getState(): the current record.
getState(m) == [state |-> m.cur, timestamp |-> m.ts]

\* peer.send(data): the call is made (the log keeps it); on a broken
\* connection it throws.
Send(m, p, msg) ==
    [m EXCEPT !.log[p] = Append(m.log[p], msg),
              !.failed = IF p \in broken THEN m.failed \cup {p} ELSE m.failed,
              !.exc = (p \in broken)]

\* Mutant: no try/catch around peer.send.
RethrowSendError(m) == m

\* broadcast's catch block: the error is logged and the loop goes on.
CatchSendError(m) == [m EXCEPT !.exc = FALSE]

\* broadcast's for-of loop over peers, from position i.
RECURSIVE BroadcastFrom(_, _, _)
BroadcastFrom(m, i, msg) ==
    IF m.exc \/ i > Len(m.regs) THEN m
    ELSE LET sent == Send(m, m.regs[i], msg)
             m1 == IF sent.exc THEN CatchSendError(sent) ELSE sent
         IN BroadcastFrom(m1, i + 1, msg)

\* Mutant: the loop returns after the first send.
broadcastFirstOnly(m, msg) ==
    IF m.regs = <<>> THEN m
    ELSE LET sent == Send(m, m.regs[1], msg)
         IN IF sent.exc THEN CatchSendError(sent) ELSE sent

broadcast(m, msg) == BroadcastFrom(m, 1, msg)

\* Mutant: the message carries no time of the write.
StateMessageUnstamped(state, timestamp) ==
    [type |-> "state", state |-> state, timestamp |-> 0]

StateMessage(state, timestamp) ==
    [type |-> "state", state |-> state, timestamp |-> timestamp]

\* The listener routes/_ws.ts registers at module load.
GatewayListener(m, state, timestamp) ==
    broadcast(m, StateMessage(state, timestamp))

\* onStateChange(listener): listeners.add(listener).
onStateChange(m, l) == [m EXCEPT !.ls = SetAdd(m.ls, l)]

\* Mutant: the unsubscribe function deletes nothing.
UnsubscribeNothing(m, l) == m

\* The unsubscribe function onStateChange(l) returned: listeners.delete(l).
\* During a notification pass the slot is emptied in place.
Unsubscribe(m, l) ==
    [m EXCEPT !.ls = [i \in 1..Len(m.ls) |->
                         IF m.ls[i] = l THEN Empty ELSE m.ls[i]]]

\* Where a call chain ends no iterator is alive, and the emptied slots of the
\* Set are unobservable.
Compact(ls) == SelectSeq(ls, LAMBDA x : x # Empty)

RECURSIVE notifyFrom(_, _, _)
RECURSIVE Invoke(_, _, _)
RECURSIVE setState(_, _)

\* Mutant: the new state is assigned to a local, the record is only restamped.
StampOnly(m, newState) ==
    LET m2 == DateNow(m) IN [m2 EXCEPT !.ts = m2.clock]

\* The assignments of setState: the record is replaced by {newState, now}.
StampedWrite(m, newState) ==
    LET m1 == [m EXCEPT !.cur = newState]
        m2 == DateNow(m1)
    IN [m2 EXCEPT !.ts = m2.clock]

\* Mutant: setState returns currentState after the assignment.
PreviousReadLate(before, after) == after.cur

\* What setState returns: the state it read before assigning.
Previous(before, after) == before.cur

\* Mutant: a write of the state that is already current notifies nobody.
setStateSkipSame(m, newState) ==
    LET written == StampedWrite(m, newState)
        w == [state |-> newState, timestamp |-> written.ts]
        started == [written EXCEPT !.passes = written.passes + 1]
        done == IF newState = m.cur THEN written ELSE notifyFrom(started, 1, w)
    IN [done EXCEPT !.ret = m.cur]

setState(m, newState) ==
    LET written == StampedWrite(m, newState)
        w == [state |-> newState, timestamp |-> written.ts]
        started == [written EXCEPT !.passes = written.passes + 1]
        done == notifyFrom(started, 1, w)
    IN [done EXCEPT !.ret = Previous(m, done)]

\* listener(currentState, stateTimestamp) for listener l, in the pass started
\* by write w: the call is recorded, then the callback's body runs.
Invoke(m, l, w) ==
    LET state == m.cur
        timestamp == m.ts
        m1 == [m EXCEPT !.trace = Append(m.trace,
                  [listener |-> l, state |-> state, timestamp |-> timestamp,
                   write |-> w])]
    IN CASE l = Gw -> GatewayListener(m1, state, timestamp)
         [] l = "u" -> Unsubscribe(m1, "a")
         [] l = "s" -> onStateChange(m1, "a")
         [] l = "r" -> IF state = "error" THEN setState(m1, "idle") ELSE m1
         [] l = "t" -> [m1 EXCEPT !.exc = TRUE]
         [] OTHER -> m1

\* Mutant: no try/catch around the listener call.
RethrowListenerError(m) == m

\* notifyListeners' catch block: the error is logged and the loop goes on.
CatchListenerError(m) == [m EXCEPT !.exc = FALSE]

\* notifyListeners' for-of loop over the live Set, from entry i: entries
\* emptied before the iterator reaches them are skipped, entries appended
\* while it runs are visited.
notifyFrom(m, i, w) ==
    IF m.exc \/ i > Len(m.ls) THEN m
    ELSE IF m.ls[i] = Empty THEN notifyFrom(m, i + 1, w)
    ELSE LET called == Invoke(m, m.ls[i], w)
             m1 == IF called.exc THEN CatchListenerError(called) ELSE called
         IN notifyFrom(m1, i + 1, w)

\* Mutant: any string is taken for a state.
isAnyString(v) == v.t = "string"

\* isValidState(state): typeof state === "string" && VALID_STATES.includes(state)
isValidState(v) == IF v.t = "string" THEN v.v \in VALID_STATES ELSE FALSE

\* !body || !isValidState(body.state)
Rejected(body) ==
    IF body.t # "object" THEN TRUE ELSE ~isValidState(body.state)

\* Mutant: the welcome carries the initial state, not the current one.
WelcomeInitial(rec) ==
    [type |-> "welcome", state |-> "idle", timestamp |-> rec.timestamp]

WelcomeMessage(rec) ==
    [type |-> "welcome", state |-> rec.state, timestamp |-> rec.timestamp]

\* Mutant: the welcome is sent to a connection that is not added to peers.
openUnregistered(m, p) == Send(m, p, WelcomeMessage(getState(m)))

\* The gateway's open(peer): peers.add(peer), then the welcome is sent.
open(m, p) ==
    LET m1 == [m EXCEPT !.regs = SetAdd(m.regs, p)]
    IN Send(m1, p, WelcomeMessage(getState(m1)))

\* The texts a connection may send to the gateway.
PingText == "{\"type\":\"ping\"}"
Texts == {PingText, "{\"type\":\"unknown\"}", "{}", "null", "\"ping\"", "ping"}

\* JSON.parse(text) on these texts: the value, or a SyntaxError.
JSONParse(text) ==
    CASE text = PingText -> [threw |-> FALSE, v |-> [t |-> "object", type |-> Str("ping")]]
      [] text = "{\"type\":\"unknown\"}" ->
            [threw |-> FALSE, v |-> [t |-> "object", type |-> Str("unknown")]]
      [] text = "{}" -> [threw |-> FALSE, v |-> [t |-> "object", type |-> [t |-> "undefined"]]]
      [] text = "null" -> [threw |-> FALSE, v |-> [t |-> "null"]]
      [] text = "\"ping\"" -> [threw |-> FALSE, v |-> Str("ping")]
      [] OTHER -> [threw |-> TRUE, v |-> [t |-> "undefined"]]

\* data.type === "ping"; reading a property of null throws a TypeError, a
\* string has no property "type".
TypeIsPing(data) ==
    CASE data.t = "null" -> [threw |-> TRUE, v |-> FALSE]
      [] data.t = "object" ->
            [threw |-> FALSE,
             v |-> IF data.type.t = "string" THEN data.type.v = "ping" ELSE FALSE]
      [] OTHER -> [threw |-> FALSE, v |-> FALSE]

PongMessage == [type |-> "pong"]

\* Mutant: no try/catch in the message handler.
RethrowInvalidMessage(m) == m

\* message's catch block: invalid messages are ignored.
IgnoreInvalidMessage(m) == [m EXCEPT !.exc = FALSE]

\* Mutant: every message that parses is answered.
messageAnswersAll(m, p, text) ==
    LET parsed == JSONParse(text)
        tried == IF parsed.threw THEN [m EXCEPT !.exc = TRUE]
                 ELSE Send(m, p, PongMessage)
    IN IF tried.exc THEN IgnoreInvalidMessage(tried) ELSE tried

\* The gateway's message(peer, msg).
message(m, p, text) ==
    LET parsed == JSONParse(text)
        tried ==
            IF parsed.threw THEN [m EXCEPT !.exc = TRUE]
            ELSE LET ping == TypeIsPing(parsed.v)
                 IN IF ping.threw THEN [m EXCEPT !.exc = TRUE]
                    ELSE IF ping.v THEN Send(m, p, PongMessage)
                    ELSE m
    IN IF tried.exc THEN IgnoreInvalidMessage(tried) ELSE tried

\* ------------------------------------------------- the terminal renderer
\* manifest.states of the avatar the renderer is constructed with: "success"
\* and "error" are one-shot states; "waiting" is declared for the browser
\* viewer only.
ManifestStates ==
    [idle |-> [file |-> "idle.webm"],
     success |-> [file |-> "success.webm", duration |-> 2000, transition_to |-> "idle"],
     error |-> [file |-> "error.webm", duration |-> 2000, transition_to |-> "waiting"],
     waiting |-> [file |-> "waiting.webm"]]

\* stateFrames after init(): the frame lists preloadAllFrames built from
\* manifest.terminal.states, by their lengths.  No frames exist for "waiting".
StateFrames == [idle |-> 2, success |-> 2, error |-> 1]

\* The URLs start() is called with: of the server, and one that is no URL.
ServerUrl == "http://localhost:3333"
ServerUrls == {ServerUrl, "localhost"}

\* What arrives on the renderer's channel: the gateway's messages, a message
\* without state, JSON null and text that is not JSON.
ChannelData ==
    {[json |-> TRUE, type |-> t, state |-> st] :
        t \in {"welcome", "state"}, st \in {"idle", "success", "error", "waiting"}}
    \cup {[json |-> TRUE, type |-> "pong"], [json |-> TRUE, type |-> "state"],
          [json |-> TRUE], [json |-> FALSE]}

\* A field holding no timer handle, no socket.
Null == 0
\* A field holding the handle setTimeout / setInterval returned.
Timeout == 1

\* The renderer object and what its methods act on, threaded through one
\* handler: r the object's fields, the pending timers, the sockets created,
\* the SIGWINCH listeners of the process, the terminal, and the calls made.
World ==
    [r |-> renderer, timers |-> timers, sockets |-> sockets,
     resizeListeners |-> resizeListeners, terminal |-> terminal, effects |-> <<>>]

Effect(w, e) == [w EXCEPT !.effects = Append(@, e)]

\* A pending timer: the render interval, an auto-transition armed on entering
\* armedIn and due to enter target, or the reconnect scheduled by the close of
\* socket from.  held: a field of the renderer holds its handle.
Timer(kind, held, armedIn, target, from) ==
    [kind |-> kind, held |-> held, armedIn |-> armedIn, target |-> target,
     from |-> from]

\* clearTimeout / clearInterval on the handle a field holds: the timer it
\* refers to, when still pending, is removed.
ClearHeld(w, kind) ==
    [w EXCEPT !.timers = {t \in @ : ~(t.kind = kind /\ t.held)}]

\* A field is overwritten with a new handle: a timer the old handle referred
\* to stays pending, out of reach.
Unhold(ts, kind) ==
    {IF t.kind = kind THEN [t EXCEPT !.held = FALSE] ELSE t : t \in ts}

\* this.stateFrames.has(state)
HasFrames(state) == state \in DOMAIN StateFrames

\* stateConfig?.duration && stateConfig?.transition_to
IsOneShot(state) ==
    IF state \notin DOMAIN ManifestStates THEN FALSE
    ELSE LET stateConfig == ManifestStates[state]
         IN IF {"duration", "transition_to"} \subseteq DOMAIN stateConfig
            THEN stateConfig.duration # 0 /\ stateConfig.transition_to # ""
            ELSE FALSE

\* Mutant: a pending transition is left alone.
KeepPendingTransition(w) == w

\* Mutant: the field is reset without cancelling the timer.
ForgetPendingTransition(w) ==
    IF w.r.transitionTimeoutId # Null
    THEN [w EXCEPT !.timers = Unhold(@, "transition"),
                   !.r.transitionTimeoutId = Null]
    ELSE w

\* setState: "Clear any pending transition".
ClearPendingTransition(w) ==
    IF w.r.transitionTimeoutId # Null
    THEN [Effect(ClearHeld(w, "transition"), "clearTimeout")
             EXCEPT !.r.transitionTimeoutId = Null]
    ELSE w

\* Mutant: the frame index is kept across a change of state.
SwitchStateKeepFrame(w, state) == [w EXCEPT !.r.currentState = state]

\* setState: this.currentState = state; this.frameIndex = 0.
SwitchState(w, state) ==
    [w EXCEPT !.r.currentState = state, !.r.frameIndex = 0]

\* Mutant: the timer is armed with the state entered as its target.
ArmTransitionToSelf(w, state) ==
    IF IsOneShot(state)
    THEN [Effect(w, "setTimeout") EXCEPT
             !.timers = Unhold(@, "transition") \cup
                 {Timer("transition", TRUE, state, state, Null)},
             !.r.transitionTimeoutId = Timeout]
    ELSE w

\* setState: "Check if this state has an auto-transition".
ArmTransition(w, state) ==
    IF IsOneShot(state)
    THEN [Effect(w, "setTimeout") EXCEPT
             !.timers = Unhold(@, "transition") \cup
                 {Timer("transition", TRUE, state,
                        ManifestStates[state].transition_to, Null)},
             !.r.transitionTimeoutId = Timeout]
    ELSE w

\* Mutant: setState without the test for the state shown.
RendererSetStateAgain(w, state) ==
    IF HasFrames(state)
    THEN ArmTransition(SwitchState(ClearPendingTransition(w), state), state)
    ELSE w

\* TerminalRenderer.setState(state)
RendererSetState(w, state) ==
    IF state # w.r.currentState /\ HasFrames(state)
    THEN ArmTransition(SwitchState(ClearPendingTransition(w), state), state)
    ELSE w

\* The sockets constructed so far.
Created(socks) == {k \in DOMAIN socks : socks[k] # "none"}

\* connectWebSocket(serverUrl): new WebSocket(wsUrl) throws on a string that
\* is no URL, and the catch block swallows it; otherwise the socket's
\* handlers are attached and it becomes this.ws.
connectWebSocket(w, serverUrl) ==
    IF serverUrl # ServerUrl THEN w
    ELSE LET k == Cardinality(Created(w.sockets)) + 1
         IN [Effect(w, "new WebSocket") EXCEPT
                !.sockets[k] = "open", !.r.ws = k]

\* renderCurrentFrame(), ascii mode: the frame at frameIndex is written to
\* the render region.
renderCurrentFrame(w) ==
    IF ~HasFrames(w.r.currentState) THEN w
    ELSE IF StateFrames[w.r.currentState] = 0 THEN w
    ELSE IF w.r.frameIndex >= StateFrames[w.r.currentState] THEN w
    ELSE [Effect(w, "render") EXCEPT !.terminal.drawn = TRUE]

\* Mutant: the index wraps one past the end of the frame list.
advanceFramePastEnd(w) ==
    IF ~HasFrames(w.r.currentState) THEN w
    ELSE IF StateFrames[w.r.currentState] = 0 THEN w
    ELSE [w EXCEPT !.r.frameIndex = (@ + 1) % (StateFrames[w.r.currentState] + 1)]

\* advanceFrame()
advanceFrame(w) ==
    IF ~HasFrames(w.r.currentState) THEN w
    ELSE IF StateFrames[w.r.currentState] = 0 THEN w
    ELSE [w EXCEPT !.r.frameIndex = (@ + 1) % StateFrames[w.r.currentState]]

\* clearRenderArea()
clearRenderArea(w) ==
    [Effect(w, "clearRenderArea") EXCEPT !.terminal.drawn = FALSE]

\* Mutant: start() without the isRunning guard.
startAgain(w, serverUrl) ==
    LET w1 == [Effect(w, "HIDE_CURSOR") EXCEPT
                  !.r.isRunning = TRUE, !.terminal.cursorHidden = TRUE]
        w2 == connectWebSocket(w1, serverUrl)
        w3 == [Effect(w2, "setInterval") EXCEPT
                  !.timers = Unhold(@, "interval") \cup
                                {Timer("interval", TRUE, "", "", Null)},
                  !.r.intervalId = Timeout]
    IN [Effect(w3, "process.on") EXCEPT !.resizeListeners = @ + 1]

\* TerminalRenderer.start(serverUrl)
start(w, serverUrl) ==
    IF w.r.isRunning THEN w
    ELSE LET w1 == [Effect(w, "HIDE_CURSOR") EXCEPT
                       !.r.isRunning = TRUE, !.terminal.cursorHidden = TRUE]
             w2 == connectWebSocket(w1, serverUrl)
             w3 == [Effect(w2, "setInterval") EXCEPT
                       !.timers = Unhold(@, "interval") \cup
                                     {Timer("interval", TRUE, "", "", Null)},
                       !.r.intervalId = Timeout]
         IN [Effect(w3, "process.on") EXCEPT !.resizeListeners = @ + 1]

\* ws.close(): the closing handshake starts on a socket that is open.
SocketClose(socks, k) ==
    IF socks[k] = "open" THEN [socks EXCEPT ![k] = "closing"] ELSE socks

\* TerminalRenderer.stop()
stop(w) ==
    IF ~w.r.isRunning THEN w
    ELSE LET w0 == [w EXCEPT !.r.isRunning = FALSE]
             w1 == IF w0.r.intervalId # Null
                   THEN [Effect(ClearHeld(w0, "interval"), "clearInterval")
                            EXCEPT !.r.intervalId = Null]
                   ELSE w0
             w2 == ClearPendingTransition(w1)
             w3 == IF w2.r.ws # Null
                   THEN [Effect(w2, "ws.close") EXCEPT
                            !.sockets = SocketClose(@, w2.r.ws), !.r.ws = Null]
                   ELSE w2
             w4 == [Effect(w3, "process.off") EXCEPT
                       !.resizeListeners = IF @ > 0 THEN @ - 1 ELSE 0]
             w5 == clearRenderArea(w4)
         IN [Effect(w5, "SHOW_CURSOR") EXCEPT !.terminal.cursorHidden = FALSE]

\* The socket's "message" handler.
OnMessage(w, data) ==
    IF ~data.json THEN w
    ELSE IF "type" \notin DOMAIN data THEN w
    ELSE IF data.type \notin {"state", "welcome"} THEN w
    ELSE IF "state" \notin DOMAIN data THEN w
    ELSE RendererSetState(w, data.state)

\* The socket's "close" handler, for socket k.
OnClose(w, k) ==
    IF w.r.isRunning
    THEN [Effect(w, "setTimeout") EXCEPT
             !.timers = @ \cup {Timer("reconnect", FALSE, "", "", k)}]
    ELSE w

\* ------------------------------------------------------ the frame loader
\* An optional property of a configuration object: absent, or present with
\* value x.
None == {}
Some(x) == {x}
The(o) == CHOOSE x \in o : TRUE

\* The frame paths configurations name; no file exists at "idle/gone.txt".
FramePaths == {"idle/01.txt", "idle/02.txt", "idle/gone.txt"}
ImagePaths == {"", "idle/image.png"}

\* join(avatarDir, path), for the avatar directory "/avatars/bot".
Join(path) ==
    CASE path = "idle/01.txt" -> "/avatars/bot/idle/01.txt"
      [] path = "idle/02.txt" -> "/avatars/bot/idle/02.txt"
      [] path = "idle/gone.txt" -> "/avatars/bot/idle/gone.txt"
      [] path = "idle/image.png" -> "/avatars/bot/idle/image.png"
      [] OTHER -> "/avatars/bot"

\* The files of the avatar directory and their content.
Disk ==
    [fullPath \in {"/avatars/bot/idle/01.txt", "/avatars/bot/idle/02.txt"} |->
        IF fullPath = "/avatars/bot/idle/01.txt" THEN "Idle 1" ELSE "Idle 2"]

\* The TerminalStateConfig values loadStateFrames is called with.
FrameLists == UNION {[1..n -> FramePaths] : n \in 0..MaxFrames}
StateConfigs ==
    {[frames |-> f, image |-> i] :
        f \in {None} \cup {Some(l) : l \in FrameLists},
        i \in {None} \cup {Some(p) : p \in ImagePaths}}
Modes == {"ascii", "image"}

\* loadFrame(framePath, avatarDir): the cached content, else the content
\* readFile returns, which is cached; readFile rejects for a missing file.
loadFrame(cache, framePath) ==
    LET fullPath == Join(framePath)
    IN IF fullPath \in DOMAIN cache
       THEN [threw |-> FALSE, v |-> cache[fullPath], cache |-> cache]
       ELSE IF fullPath \notin DOMAIN Disk
       THEN [threw |-> TRUE, v |-> "", cache |-> cache]
       ELSE [threw |-> FALSE, v |-> Disk[fullPath],
             cache |-> [q \in DOMAIN cache \cup {fullPath} |->
                           IF q = fullPath THEN Disk[fullPath] ELSE cache[q]]]

\* stateConfig.frames.map(loadFrame) under Promise.all: every load is started,
\* in order, and each one that succeeds fills the cache.
RECURSIVE LoadAll(_, _, _)
LoadAll(cache, paths, i) ==
    IF i > Len(paths) THEN [threw |-> FALSE, frames |-> <<>>, cache |-> cache]
    ELSE LET one == loadFrame(cache, paths[i])
             rest == LoadAll(one.cache, paths, i + 1)
         IN [threw |-> one.threw \/ rest.threw,
             frames |-> <<one.v>> \o rest.frames, cache |-> rest.cache]

\* What the promise of loadStateFrames settles with.
Settled(rejected, frames, isImage, cache) ==
    [rejected |-> rejected, frames |-> frames, isImage |-> isImage,
     cache |-> cache]

\* "Fallback to empty frame"
EmptyFrame(cache) == Settled(FALSE, <<"">>, FALSE, cache)

\* loadStateFrames(stateConfig, avatarDir, mode)
loadStateFrames(cache, stateConfig, mode) ==
    IF mode = "ascii" /\ stateConfig.frames # None
    THEN LET all == LoadAll(cache, The(stateConfig.frames), 1)
         IN IF all.threw THEN Settled(TRUE, <<>>, FALSE, all.cache)
            ELSE Settled(FALSE, all.frames, FALSE, all.cache)
    ELSE IF mode = "image" /\ stateConfig.image # None
                           /\ The(stateConfig.image) # ""
    THEN Settled(FALSE, <<Join(The(stateConfig.image))>>, TRUE, cache)
    ELSE EmptyFrame(cache)

\* ---------------------------------------------------- the hook installer
\* The keys of ClaudeHooks, and a hook event of the settings file that is not
\* among them.
HookEvents == {"UserPromptSubmit", "PreToolUse", "PostToolUse", "Notification", "Stop"}
OtherEvent == "SessionStart"

\* The commands generateHookConfig installs, and a user's command.
BytesideCommands ==
    {"byteside trigger thinking", "byteside trigger writing", "byteside trigger bash",
     "byteside trigger waiting", "byteside trigger success"}
CustomCommand == "echo custom"

\* isBytesideHook(command): command.startsWith("byteside trigger")
isBytesideHook(command) == command \in BytesideCommands

HookCommand(command) == [type |-> "command", command |-> command]
HookEntry(matcher, commands) ==
    [matcher |-> matcher, hooks |-> [i \in 1..Len(commands) |-> HookCommand(commands[i])]]

\* generateHookConfig()
generateHookConfig ==
    [e \in HookEvents |->
        CASE e = "UserPromptSubmit" -> <<HookEntry(None, <<"byteside trigger thinking">>)>>
          [] e = "PreToolUse" ->
                <<HookEntry(Some("Edit|Write|MultiEdit|NotebookEdit"),
                            <<"byteside trigger writing">>),
                  HookEntry(Some("Bash"), <<"byteside trigger bash">>)>>
          [] e = "PostToolUse" -> <<HookEntry(Some("*"), <<"byteside trigger thinking">>)>>
          [] e = "Notification" -> <<HookEntry(None, <<"byteside trigger waiting">>)>>
          [] e = "Stop" -> <<HookEntry(None, <<"byteside trigger success">>)>>]

\* The entry lists a settings file has under one hook event: a user's entry,
\* an entry with a byteside command and a user's command, an entry byteside
\* installed earlier.
EntryLists ==
    {<<HookEntry(Some("Custom"), <<CustomCommand>>)>>,
     <<HookEntry(Some("Read"), <<"byteside trigger thinking", CustomCommand>>)>>,
     <<HookEntry(Some("Read"), <<"byteside trigger thinking">>)>>}

\* The hook events under which the settings files of the model have entries.
UsedEvents == {"PreToolUse", "Stop", OtherEvent}

\* The values settings.json parses to: with or without "hooks", with or
\* without another key.
HooksValues ==
    UNION {[S -> EntryLists] : S \in SUBSET UsedEvents}
SettingsValues ==
    {[hooks |-> h, customKey |-> k] :
        h \in {None} \cup {Some(v) : v \in HooksValues},
        k \in {None, Some("preserved")}}

\* The settings object {}.
EmptySettings == [hooks |-> None, customKey |-> None]

\* filterBytesideHooks(entries)
filterBytesideHooks(entries) ==
    LET Strip(entry) ==
            [entry EXCEPT !.hooks = SelectSeq(@, LAMBDA h : ~isBytesideHook(h.command))]
        kept == SelectSeq(entries, LAMBDA entry : Len(Strip(entry).hooks) # 0)
    IN [i \in 1..Len(kept) |-> Strip(kept[i])]

\* removeBytesideHooks(settings): newHooks receives the five keys of
\* ClaudeHooks, each when its filtered list is not empty; "hooks: undefined"
\* is a key JSON.stringify leaves out.
removeBytesideHooks(settings) ==
    IF settings.hooks = None THEN settings
    ELSE LET hooks == The(settings.hooks)
             filtered == [e \in DOMAIN hooks \cap HookEvents |->
                             filterBytesideHooks(hooks[e])]
             keys == {e \in DOMAIN filtered : Len(filtered[e]) > 0}
             newHooks == [e \in keys |-> filtered[e]]
         IN [settings EXCEPT !.hooks = IF keys # {} THEN Some(newHooks) ELSE None]

\* mergeHooks(existing, bytesideHooks)
mergeHooks(existing, bytesideHooks) ==
    LET base == IF existing # None THEN removeBytesideHooks(The(existing))
                ELSE EmptySettings
        baseHooks == IF base.hooks # None THEN The(base.hooks)
                     ELSE [e \in {} |-> <<>>]
        mergedHooks ==
            [e \in DOMAIN baseHooks \cup DOMAIN bytesideHooks |->
                (IF e \in DOMAIN baseHooks THEN baseHooks[e] ELSE <<>>)
                \o (IF e \in DOMAIN bytesideHooks THEN bytesideHooks[e] ELSE <<>>)]
    IN [base EXCEPT !.hooks = Some(mergedHooks)]

\* The byteside commands among the hooks of one entry list.
RECURSIVE countInEntries(_, _)
countInEntries(entries, i) ==
    IF i > Len(entries) THEN 0
    ELSE Len(SelectSeq(entries[i].hooks, LAMBDA h : isBytesideHook(h.command)))
         + countInEntries(entries, i + 1)

\* countBytesideHooks(settings)
countBytesideHooks(settings) ==
    IF settings = None THEN 0
    ELSE IF The(settings).hooks = None THEN 0
    ELSE LET hooks == The(The(settings).hooks)
         IN Sum([e \in HookEvents |->
                    IF e \in DOMAIN hooks THEN countInEntries(hooks[e], 1) ELSE 0],
                HookEvents)

\* hasBytesideHooks(settings)
hasBytesideHooks(settings) == countBytesideHooks(settings) > 0

\* installHooks(path, { force }): the file afterwards, and result.success.
installHooks(existing, force) ==
    IF existing # None /\ hasBytesideHooks(existing) /\ ~force
    THEN [file |-> existing, success |-> FALSE]
    ELSE [file |-> Some(mergeHooks(existing, generateHookConfig)), success |-> TRUE]

\* uninstallHooks(path): the file afterwards, and result.success.
uninstallHooks(existing) ==
    IF existing = None THEN [file |-> existing, success |-> TRUE]
    ELSE IF ~hasBytesideHooks(existing) THEN [file |-> existing, success |-> TRUE]
    ELSE [file |-> Some(removeBytesideHooks(The(existing))), success |-> TRUE]

\* ---------------------------------------------------------------- actions
NA == "-"

\* The last step handled no inbound message.
NoMessage == [peer |-> 0, text |-> NA, threw |-> FALSE]

\* No unsubscribe function has been called yet.
Unused == "<none>"

\* The handler's answer: the status it set and the object it returned (status 0:
\* no request answered yet; validStates is absent from an acceptance).
Response(status, ok, state, previous, validStates) ==
    [status |-> status, ok |-> ok, state |-> state, previous |-> previous,
     validStates |-> validStates]

\* No timer.
NoTimer == Timer("", FALSE, "", "", Null)

\* A handler of the renderer and what it was called with: the state passed or
\* carried, the message type, the URL, the socket, the timer that fired.
Run(handler, type, state, url, sock, timer) ==
    [handler |-> handler, type |-> type, state |-> state, url |-> url,
     sock |-> sock, timer |-> timer, effects |-> <<>>]

NoRun == Run(NA, "", "", "", Null, NoTimer)

\* No hook command has run yet.
NoHookRun == [op |-> NA, force |-> FALSE, success |-> FALSE]

\* No frames have been loaded yet.
NoLoad ==
    [called |-> FALSE, stateConfig |-> [frames |-> None, image |-> None],
     mode |-> "", rejected |-> FALSE, frames |-> <<>>, isImage |-> FALSE]

Init ==
    /\ currentState = "idle"
    /\ stateTimestamp = 0
    /\ clock = 0
    /\ listeners = <<Gw>>
    /\ peers = <<>>
    /\ conn = [p \in Peers |-> "connecting"]
    /\ broken = {}
    /\ log = [p \in Peers |-> <<>>]
    /\ sendFailed = {}
    /\ inflight = [b \in Bodies |-> 0]
    /\ response = Response(0, FALSE, NA, NA, {})
    /\ trace = <<>>
    /\ passes = 0
    /\ writes = <<>>
    /\ openAt = [p \in Peers |-> 0]
    /\ spent = Unused
    /\ received = NoMessage
    /\ renderer = [currentState |-> "idle", frameIndex |-> 0, intervalId |-> Null,
                   transitionTimeoutId |-> Null, ws |-> Null, isRunning |-> FALSE]
    /\ timers = {}
    /\ sockets = [k \in 1..MaxSockets |-> "none"]
    /\ resizeListeners = 0
    /\ terminal = [cursorHidden |-> FALSE, drawn |-> FALSE]
    /\ ran = NoRun
    /\ stopped = FALSE
    /\ frameCache = <<>>
    /\ loaded = NoLoad
    /\ settingsFile = None
    /\ original = None
    /\ hookRun = NoHookRun

\* The server, the renderer and the loader as in Init, and a settings file: none,
\* or one that parses to any of SettingsValues.
InitHooks ==
    /\ currentState = "idle"
    /\ stateTimestamp = 0
    /\ clock = 0
    /\ listeners = <<Gw>>
    /\ peers = <<>>
    /\ conn = [p \in Peers |-> "connecting"]
    /\ broken = {}
    /\ log = [p \in Peers |-> <<>>]
    /\ sendFailed = {}
    /\ inflight = [b \in Bodies |-> 0]
    /\ response = Response(0, FALSE, NA, NA, {})
    /\ trace = <<>>
    /\ passes = 0
    /\ writes = <<>>
    /\ openAt = [p \in Peers |-> 0]
    /\ spent = Unused
    /\ received = NoMessage
    /\ renderer = [currentState |-> "idle", frameIndex |-> 0, intervalId |-> Null,
                   transitionTimeoutId |-> Null, ws |-> Null, isRunning |-> FALSE]
    /\ timers = {}
    /\ sockets = [k \in 1..MaxSockets |-> "none"]
    /\ resizeListeners = 0
    /\ terminal = [cursorHidden |-> FALSE, drawn |-> FALSE]
    /\ ran = NoRun
    /\ stopped = FALSE
    /\ frameCache = <<>>
    /\ loaded = NoLoad
    /\ settingsFile \in {None} \cup {Some(v) : v \in SettingsValues}
    /\ original = settingsFile
    /\ hookRun = NoHookRun

\* The program's variables after a call chain that ended in machine m.
Commit(m) ==
    /\ currentState' = m.cur
    /\ stateTimestamp' = m.ts
    /\ clock' = m.clock
    /\ listeners' = Compact(m.ls)
    /\ peers' = m.regs
    /\ log' = m.log
    /\ sendFailed' = m.failed
    /\ trace' = m.trace
    /\ passes' = m.passes

\* The writes the environment may still make: those admitted and not yet done
\* count against MaxWrites.
Admitted == Len(writes) + Sum(inflight, {b \in Bodies : ~Rejected(b)})

Written(m, newState, via) ==
    Append(writes, [state |-> newState, previous |-> m.ret, threw |-> m.exc,
                    via |-> via])

\* One Date.now() per setState of a call chain: the outer call's, and the one
\* of the setState a listener may issue.
Ticks == IF "r" \in Range(listeners) THEN [1..2 -> {0, 1}] ELSE [1..1 -> {0, 1}]

\* A caller calls setState(newState).
SetStateCall(newState) ==
    /\ UNCHANGED <<rendererVars, toolVars>>
    /\ Admitted < MaxWrites
    /\ \E ticks \in Ticks :
          LET m == setState(Machine(ticks), newState)
          IN /\ Commit(m)
             /\ writes' = Written(m, newState, "call")
    /\ received' = NoMessage
    /\ UNCHANGED <<conn, broken, inflight, response, openAt, spent>>

\* POST /state arrives; the handler awaits readBody.
PostReceive(body) ==
    /\ UNCHANGED <<rendererVars, toolVars>>
    /\ Sum(inflight, Bodies) < MaxInflight
    /\ IF Rejected(body) THEN TRUE ELSE Admitted < MaxWrites
    /\ inflight' = [inflight EXCEPT ![body] = @ + 1]
    /\ received' = NoMessage
    /\ UNCHANGED <<currentState, stateTimestamp, listeners, peers, clock, conn,
                   broken, log, sendFailed, response, trace, passes, writes, openAt, spent>>

\* readBody of a request resolves with body; the rest of the handler runs.
PostBodyRead(body) ==
    /\ UNCHANGED <<rendererVars, toolVars>>
    /\ inflight[body] > 0
    /\ inflight' = [inflight EXCEPT ![body] = @ - 1]
    /\ IF Rejected(body)
       THEN /\ response' = Response(400, FALSE, NA, NA, VALID_STATES)
            /\ UNCHANGED <<currentState, stateTimestamp, listeners, peers,
                           clock, log, sendFailed, trace, passes, writes>>
       ELSE \E ticks \in Ticks :
               LET m == setState(Machine(ticks), body.state.v)
               IN /\ Commit(m)
                  /\ response' = Response(200, TRUE, body.state.v, m.ret, {})
                  /\ writes' = Written(m, body.state.v, "post")
    /\ received' = NoMessage
    /\ UNCHANGED <<conn, broken, openAt, spent>>

\* The gateway's open(peer) for the next connection.
Open(p) ==
    /\ UNCHANGED <<rendererVars, toolVars>>
    /\ conn[p] = "connecting"
    /\ \A q \in Peers : q < p => conn[q] # "connecting"
    /\ LET m2 == open(Machine(<<>>), p)
       IN /\ currentState' = m2.cur
          /\ stateTimestamp' = m2.ts
          /\ peers' = m2.regs
          /\ log' = m2.log
          /\ sendFailed' = m2.failed
    /\ conn' = [conn EXCEPT ![p] = "open"]
    /\ openAt' = [openAt EXCEPT ![p] = Len(writes)]
    /\ received' = NoMessage
    /\ UNCHANGED <<listeners, clock, broken, inflight, response, trace, passes, writes,
                   spent>>

\* What is remembered about a connection ends when the gateway forgets it.
Forget(p) ==
    /\ broken' = broken \ {p}
    /\ log' = [log EXCEPT ![p] = <<>>]
    /\ sendFailed' = sendFailed \ {p}
    /\ openAt' = [openAt EXCEPT ![p] = 0]

\* The gateway's close(peer).
Close(p) ==
    /\ UNCHANGED <<rendererVars, toolVars>>
    /\ conn[p] \in {"open", "errored"}
    /\ peers' = SetDelete(peers, p)
    /\ conn' = [conn EXCEPT ![p] = "closed"]
    /\ Forget(p)
    /\ received' = NoMessage
    /\ UNCHANGED <<currentState, stateTimestamp, listeners, clock, inflight,
                   response, trace, passes, writes, spent>>

\* The gateway's error(peer, err).
WsError(p) ==
    /\ UNCHANGED <<rendererVars, toolVars>>
    /\ conn[p] = "open"
    /\ peers' = SetDelete(peers, p)
    /\ conn' = [conn EXCEPT ![p] = "errored"]
    /\ Forget(p)
    /\ received' = NoMessage
    /\ UNCHANGED <<currentState, stateTimestamp, listeners, clock, inflight,
                   response, trace, passes, writes, spent>>

\* The environment: an open connection's socket goes bad; from now on sending
\* to it throws.
Break(p) ==
    /\ UNCHANGED <<rendererVars, toolVars>>
    /\ conn[p] = "open"
    /\ p \notin broken
    /\ broken' = broken \cup {p}
    /\ received' = NoMessage
    /\ UNCHANGED <<currentState, stateTimestamp, listeners, peers, clock, conn,
                   log, sendFailed, inflight, response, trace, passes, writes, openAt,
          spent>>

\* The pongs sent to the registered connections so far.
Pongs == Sum([p \in Peers |-> Len(SelectSeq(log[p], LAMBDA x : x.type = "pong"))], Peers)

\* A connection sends text to the gateway; message(peer, msg) runs.
Message(p, text) ==
    /\ UNCHANGED <<rendererVars, toolVars>>
    /\ conn[p] = "open"
    /\ Pongs < MaxPings
    /\ LET m == message(Machine(<<>>), p, text)
       IN /\ Commit(m)
          /\ received' = [peer |-> p, text |-> text, threw |-> m.exc]
    /\ UNCHANGED <<conn, broken, inflight, response, writes, openAt, spent>>

\* A client calls onStateChange(l).
Subscribe(l) ==
    /\ UNCHANGED <<rendererVars, toolVars>>
    /\ listeners' = Compact(onStateChange(Machine(<<>>), l).ls)
    /\ trace' = <<>>
    /\ received' = NoMessage
    /\ UNCHANGED <<currentState, stateTimestamp, peers, clock, conn, broken, log,
                   sendFailed, inflight, response, passes, writes, openAt, spent>>

\* A client calls the unsubscribe function onStateChange(l) returned to it:
\* while l is registered, or once more when it was the last one called (the
\* function called where spent = l is the one that was called before).
UnsubscribeCall(l) ==
    /\ UNCHANGED <<rendererVars, toolVars>>
    /\ l \in Range(listeners) \cup {spent}
    /\ listeners' = Compact(Unsubscribe(Machine(<<>>), l).ls)
    /\ spent' = l
    /\ trace' = <<>>
    /\ received' = NoMessage
    /\ UNCHANGED <<currentState, stateTimestamp, peers, clock, conn, broken, log,
                   sendFailed, inflight, response, passes, writes, openAt>>

\* The renderer's fields and surroundings after a handler that ended in w.
CommitWorld(w, run) ==
    /\ renderer' = w.r
    /\ timers' = w.timers
    /\ sockets' = w.sockets
    /\ resizeListeners' = w.resizeListeners
    /\ terminal' = w.terminal
    /\ ran' = [run EXCEPT !.effects = w.effects]

\* A socket can still be constructed.
SocketLeft == Cardinality(Created(sockets)) < MaxSockets

\* The program calls renderer.start(serverUrl).
Start(serverUrl) ==
    /\ renderer.isRunning \/ serverUrl # ServerUrl \/ SocketLeft
    /\ CommitWorld(start(World, serverUrl),
                   Run("start", "", "", serverUrl, Null, NoTimer))
    /\ stopped' = FALSE
    /\ UNCHANGED <<storeVars, toolVars>>

\* The program calls renderer.stop().
Stop ==
    /\ CommitWorld(stop(World), Run("stop", "", "", "", Null, NoTimer))
    /\ stopped' = (stopped \/ renderer.isRunning)
    /\ UNCHANGED <<storeVars, toolVars>>

\* The program calls renderer.setState(state).
CallSetState(state) ==
    /\ CommitWorld(RendererSetState(World, state),
                   Run("setState", "", state, "", Null, NoTimer))
    /\ UNCHANGED <<stopped, storeVars, toolVars>>

\* Socket k emits "message".
ChannelMessage(k, data) ==
    /\ sockets[k] = "open"
    /\ CommitWorld(OnMessage(World, data),
                   Run("message",
                       IF "type" \in DOMAIN data THEN data.type ELSE "",
                       IF "state" \in DOMAIN data THEN data.state ELSE "",
                       "", k, NoTimer))
    /\ UNCHANGED <<stopped, storeVars, toolVars>>

\* Socket k emits "close": the connection is lost, or the closing handshake
\* stop() started is over.
ChannelClose(k) ==
    /\ sockets[k] \in {"open", "closing"}
    /\ CommitWorld(OnClose([World EXCEPT !.sockets[k] = "closed"], k),
                   Run("close", "", "", "", k, NoTimer))
    /\ UNCHANGED <<stopped, storeVars, toolVars>>

\* The render interval fires: renderCurrentFrame(), advanceFrame().
Tick(t) ==
    /\ t \in timers
    /\ t.kind = "interval"
    /\ CommitWorld(advanceFrame(renderCurrentFrame(World)),
                   Run("tick", "", "", "", Null, t))
    /\ UNCHANGED <<stopped, storeVars, toolVars>>

\* An auto-transition timer fires: this.setState(targetState).
TransitionFire(t) ==
    /\ t \in timers
    /\ t.kind = "transition"
    /\ CommitWorld(RendererSetState([World EXCEPT !.timers = @ \ {t}], t.target),
                   Run("transition", "", t.target, "", Null, t))
    /\ UNCHANGED <<stopped, storeVars, toolVars>>

\* A reconnect timer fires: this.connectWebSocket(serverUrl), with the URL of
\* the start() that constructed the socket whose close scheduled it.
ReconnectFire(t) ==
    /\ t \in timers
    /\ t.kind = "reconnect"
    /\ SocketLeft
    /\ CommitWorld(connectWebSocket([World EXCEPT !.timers = @ \ {t}], ServerUrl),
                   Run("reconnect", "", "", ServerUrl, t.from, t))
    /\ UNCHANGED <<stopped, storeVars, toolVars>>

\* The terminal is resized: SIGWINCH reaches handleResize.
Resize ==
    /\ resizeListeners > 0
    /\ CommitWorld(renderCurrentFrame(World), Run("resize", "", "", "", Null, NoTimer))
    /\ UNCHANGED <<stopped, storeVars, toolVars>>

\* The renderer's init() loads the frames of one terminal state.
LoadStateFrames(stateConfig, mode) ==
    /\ LET res == loadStateFrames(frameCache, stateConfig, mode)
       IN /\ frameCache' = res.cache
          /\ loaded' = [called |-> TRUE, stateConfig |-> stateConfig,
                        mode |-> mode, rejected |-> res.rejected,
                        frames |-> res.frames, isImage |-> res.isImage]
    /\ UNCHANGED <<storeVars, rendererVars, settingsFile, original, hookRun>>

\* clearFrameCache()
ClearFrameCache ==
    /\ frameCache' = <<>>
    /\ UNCHANGED <<loaded, storeVars, rendererVars, settingsFile, original, hookRun>>

\* The user runs the command that installs the hooks, with or without --force.
Install(force) ==
    /\ LET res == installHooks(settingsFile, force)
       IN /\ settingsFile' = res.file
          /\ hookRun' = [op |-> "install", force |-> force, success |-> res.success]
    /\ UNCHANGED <<original, frameCache, loaded, storeVars, rendererVars>>

\* The user runs the command that removes the hooks.
Uninstall ==
    /\ LET res == uninstallHooks(settingsFile)
       IN /\ settingsFile' = res.file
          /\ hookRun' = [op |-> "uninstall", force |-> FALSE, success |-> res.success]
    /\ UNCHANGED <<original, frameCache, loaded, storeVars, rendererVars>>

\* The store and the gateway: callers write, viewers come and go.
Next ==
    \/ \E s \in InputStates : SetStateCall(s)
    \/ \E p \in Peers : Open(p)
    \/ \E p \in Peers : Close(p)
    \/ \E p \in Peers : WsError(p)
    \/ \E p \in Peers : Break(p)

Spec == Init /\ [][Next]_vars

\* The store behind the ingress, watched by one viewer.
NextIngress ==
    \/ \E s \in InputStates : SetStateCall(s)
    \/ \E b \in Bodies : PostReceive(b)
    \/ \E b \in Bodies : PostBodyRead(b)
    \/ Open(1)
    \/ Close(1)

SpecIngress == Init /\ [][NextIngress]_vars

\* The gateway and the messages its connections send it.
NextMessages ==
    \/ \E p \in Peers : Open(p)
    \/ \E p \in Peers : Close(p)
    \/ \E p \in Peers : WsError(p)
    \/ \E p \in Peers : Break(p)
    \/ \E p \in Peers, text \in Texts : Message(p, text)

SpecMessages == Init /\ [][NextMessages]_vars

\* The terminal renderer, its channel, its timers and the program driving it.
NextRenderer ==
    \/ \E u \in ServerUrls : Start(u)
    \/ Stop
    \/ \E st \in DOMAIN ManifestStates : CallSetState(st)
    \/ \E k \in 1..MaxSockets, data \in ChannelData : ChannelMessage(k, data)
    \/ \E k \in 1..MaxSockets : ChannelClose(k)
    \/ \E t \in timers : Tick(t)
    \/ \E t \in timers : TransitionFire(t)
    \/ \E t \in timers : ReconnectFire(t)
    \/ Resize

SpecRenderer == Init /\ [][NextRenderer]_vars

\* The frame loader and its cache.
NextLoader ==
    \/ \E c \in StateConfigs, mode \in Modes : LoadStateFrames(c, mode)
    \/ ClearFrameCache

SpecLoader == Init /\ [][NextLoader]_vars

\* The hook commands, run on one settings file.
NextHooks ==
    \/ \E force \in BOOLEAN : Install(force)
    \/ Uninstall

SpecHooks == InitHooks /\ [][NextHooks]_vars

\* The store and its clients' listeners.
NextListeners ==
    \/ \E s \in InputStates : SetStateCall(s)
    \/ \E l \in ClientListeners : Subscribe(l)
    \/ \E l \in ClientListeners : UnsubscribeCall(l)

SpecListeners == Init /\ [][NextListeners]_vars

\* ----------------------------------------------------------------- claims
Registered == Range(peers)

\* One setState call from outside was made in this step.
WriteStep == Len(writes') = Len(writes) + 1

NewWrite == writes'[Len(writes')]

StateMessagesOf(p) == SelectSeq(log[p], LAMBDA x : x.type = "state")

StatesOf(s) == [i \in 1..Len(s) |-> s[i].state]

\* C1: each setState call passes exactly one "state" message, carrying the new
\* state, to the send of every connection registered at the time of the call,
\* and nothing is ever sent to a connection the gateway has forgotten.
C1_OneStateMessagePerRegisteredPeer ==
    /\ [](\A p \in Peers : p \notin Registered => log[p] = <<>>)
    /\ [][WriteStep =>
            \A p \in Peers :
               IF p \in Registered
               THEN log'[p] = Append(log[p],
                        [type |-> "state", state |-> NewWrite.state,
                         timestamp |-> stateTimestamp'])
               ELSE log'[p] = log[p]]_vars

\* Two connections are open and one write has reached both.
C1_Witness ==
    /\ Len(peers) = 2
    /\ Len(writes) = 1
    /\ \A p \in Registered :
          /\ Len(log[p]) = 2
          /\ log[p][2].type = "state"
          /\ log[p][2].state = writes[1].state

\* C2: on open a connection is sent exactly one "welcome", carrying the state
\* and timestamp getState() returns at that moment, whatever was written before.
C2_WelcomeCarriesCurrentRecord ==
    /\ [](\A p \in Registered :
            /\ log[p] # <<>>
            /\ \A i \in 1..Len(log[p]) : (log[p][i].type = "welcome") <=> (i = 1))
    /\ [][\A p \in Peers :
            (conn[p] = "connecting" /\ conn'[p] = "open") =>
               log'[p] = << [type |-> "welcome", state |-> currentState,
                             timestamp |-> stateTimestamp] >>]_vars

\* A connection opened after two writes was welcomed with the second one.
C2_Witness ==
    \E p \in Registered :
       /\ openAt[p] = 2
       /\ writes[2].state = "error"
       /\ log[p] = << [type |-> "welcome", state |-> "error",
                       timestamp |-> stateTimestamp] >>

\* C3: when the send of a registered connection throws during the broadcast of
\* a setState call, the call returns normally and every other registered
\* connection is still sent the state message of that write.
C3_ThrowingPeerDoesNotStopBroadcast ==
    [][(WriteStep /\ Registered \cap broken # {}) =>
          /\ ~NewWrite.threw
          /\ \A p \in Registered \ broken :
                log'[p] = Append(log[p],
                    [type |-> "state", state |-> NewWrite.state,
                     timestamp |-> stateTimestamp'])]_vars

\* The first registered connection's send threw, the second received the write.
C3_Witness ==
    /\ Len(peers) = 2
    /\ peers[1] \in sendFailed
    /\ peers[2] \notin broken
    /\ Len(writes) >= 1
    /\ log[peers[2]][Len(log[peers[2]])] =
          [type |-> "state", state |-> writes[Len(writes)].state,
           timestamp |-> stateTimestamp]

\* C4: a connection whose send failed during a broadcast is no longer in the
\* connection registry.
C4_FailedPeerIsDropped == \A p \in sendFailed : p \notin Registered

\* C5: the states carried by the "state" messages sent to a registered
\* connection are exactly the states passed to setState since it was opened,
\* in call order: none dropped, merged or reordered.
C5_PerConnectionOrder ==
    \A p \in Registered :
       StatesOf(StateMessagesOf(p)) =
          StatesOf(SubSeq(writes, openAt[p] + 1, Len(writes)))

\* A connection has been sent the same state twice in a row.
C5_Witness ==
    \E p \in Registered :
       /\ Len(log[p]) = 3
       /\ log[p][2].type = "state"
       /\ log[p][3].type = "state"
       /\ log[p][2].state = log[p][3].state

\* C6: after setState(s), getState() returns state s with a timestamp not
\* smaller than the one it returned before the call, also when s was already
\* the current state.
C6_WriteIsReadBack ==
    [][WriteStep =>
          /\ currentState' = NewWrite.state
          /\ stateTimestamp' >= stateTimestamp]_vars

\* The current state was written again, in the same millisecond.
C6_Witness ==
    /\ Len(writes) = 2
    /\ writes[1].state = "error"
    /\ writes[2].state = "error"
    /\ currentState = "error"
    /\ stateTimestamp = 0

\* C7: the value each setState call returns as "previous", and the POST
\* handler reports, is the state that was current immediately before the call:
\* the state of the preceding write, or idle for the first one, in whatever
\* order the body reads of the requests in flight complete.
C7_PreviousIsStateBeforeCall ==
    /\ [](\A i \in 1..Len(writes) :
            writes[i].previous = IF i = 1 THEN "idle" ELSE writes[i - 1].state)
    /\ [][WriteStep =>
            /\ NewWrite.previous = currentState
            /\ (NewWrite.via = "post") =>
                  response' = [status |-> 200, ok |-> TRUE,
                               state |-> NewWrite.state,
                               previous |-> currentState,
                               validStates |-> {}]]_vars

\* Two POST requests have written; the second was told the first one's state.
C7_Witness ==
    /\ Len(writes) = 2
    /\ writes[1].via = "post"
    /\ writes[2].via = "post"
    /\ writes[1].state = "error"
    /\ writes[2].state = "idle"
    /\ response.previous = "error"

\* The bodies the handler must refuse: none, or a state that is not one of the
\* seven labels.
Refusable(b) ==
    IF b.t # "object" THEN TRUE
    ELSE IF b.state.t # "string" THEN TRUE
    ELSE b.state.v \notin {"idle", "thinking", "writing", "bash", "error",
                           "success", "waiting"}

\* The body read of a request with a refusable body completed in this step.
RefusalStep == \E b \in Bodies : Refusable(b) /\ inflight'[b] < inflight[b]

\* C8: a POST /state whose body is missing or names no canonical label is
\* answered with a failure listing the seven labels, and changes nothing: the
\* record, the listeners, the passes run and every connection's messages stay.
C8_RejectionChangesNothing ==
    [][RefusalStep =>
          /\ response'.ok = FALSE
          /\ response'.status = 400
          /\ response'.validStates = {"idle", "thinking", "writing", "bash",
                                      "error", "success", "waiting"}
          /\ UNCHANGED <<currentState, stateTimestamp, listeners, peers, log,
                         passes, trace, writes>>]_vars

\* A request was refused while the state was "error" and a viewer connected.
C8_Witness ==
    /\ response.status = 400
    /\ currentState = "error"
    /\ Len(peers) = 1
    /\ Len(log[1]) = 2

EventsOf(tr, l) == SelectSeq(tr, LAMBDA e : e.listener = l)

\* C9: every listener registered when setState is called is invoked exactly
\* once during the call, with the new state and the timestamp getState()
\* returns afterwards, also when listeners subscribe or unsubscribe listeners
\* while being notified.  Stated for the calls during which no listener calls
\* setState itself (that case is C10's).
C9_EveryListenerOncePerCall ==
    [][(WriteStep /\ "r" \notin Range(listeners)) =>
          \A l \in Range(listeners) :
             LET ev == EventsOf(trace', l)
             IN /\ Len(ev) = 1
                /\ ev[1].state = NewWrite.state
                /\ ev[1].timestamp = stateTimestamp']_vars

\* C10: no write takes effect while another write's notification pass runs:
\* every listener invoked in a pass is handed the state and timestamp of the
\* write that started the pass.
C10_PassObservesItsOwnWrite ==
    \A i \in 1..Len(trace) :
       /\ trace[i].state = trace[i].write.state
       /\ trace[i].timestamp = trace[i].write.timestamp

\* C11: when a listener throws during a notification pass, setState still
\* returns the state that was current before the call, without raising, and
\* every other listener that is registered at the call and not unsubscribed
\* during it is invoked for that write, wherever the throwing listener stands
\* in the registration order.
C11_ThrowingListenerIsIsolated ==
    [][(WriteStep /\ "t" \in Range(listeners)) =>
          /\ ~NewWrite.threw
          /\ NewWrite.previous = currentState
          /\ \A l \in Range(listeners) \cap Range(listeners') :
                \E i \in 1..Len(trace') :
                   /\ trace'[i].listener = l
                   /\ trace'[i].write.state = NewWrite.state]_vars

\* The throwing listener was invoked first, and the listener registered after
\* it was still invoked for the same write.
C11_Witness ==
    /\ Len(writes) >= 1
    /\ ~writes[Len(writes)].threw
    /\ Len(trace) >= 2
    /\ trace[1].listener = Gw
    /\ \E i \in 2..Len(trace) - 1 :
          /\ trace[i].listener = "t"
          /\ trace[i + 1].listener = "a"
          /\ trace[i + 1].state = writes[Len(writes)].state

\* An unsubscribe function was called from outside in this step.
UnsubscribeStep ==
    /\ UNCHANGED writes
    /\ spent' # spent \/ Len(listeners') < Len(listeners)

\* A listener re-subscribes callback l while it is being notified.
ResubscribedInPass(l) == l = "a" /\ "s" \in Range(listeners)

\* C12: once the unsubscribe function of a callback has been called, the
\* callback is not registered, and a setState call made while it is not
\* registered (and during which nobody subscribes it again) invokes it zero
\* times.
C12_UnsubscribedIsNotInvoked ==
    /\ [][UnsubscribeStep => spent' \notin Range(listeners')]_vars
    /\ [][WriteStep =>
            \A l \in ClientListeners :
               (l \notin Range(listeners) /\ ~ResubscribedInPass(l)) =>
                  EventsOf(trace', l) = <<>>]_vars

\* The unsubscribe function of "a" was called, and a later write notified the
\* throwing listener and the gateway but not "a".
C12_Witness ==
    /\ spent = "a"
    /\ "a" \notin Range(listeners)
    /\ Len(writes) = 2
    /\ EventsOf(trace, "t") # <<>>
    /\ EventsOf(trace, Gw) # <<>>
    /\ EventsOf(trace, "a") = <<>>

\* C13: calling an unsubscribe function again, after it has removed its
\* subscription, removes nothing: a subscription made later with the same
\* callback stays registered.
C13_SecondUnsubscribeRemovesNothing ==
    [][(UNCHANGED <<writes, spent>> /\ spent \in Range(listeners)) =>
          spent \in Range(listeners')]_vars

\* The gateway's message handler ran in this step.
MessageStep == received' # NoMessage

\* C14: a ping from a connection makes the gateway send exactly one pong, to
\* that connection only; any other text, JSON or not, makes it send nothing;
\* no exception leaves the handler, and the state record, the listeners and
\* the connection registry stay as they were.
C14_PingIsAnsweredOthersIgnored ==
    [][MessageStep =>
          /\ log' = IF received'.text = "{\"type\":\"ping\"}"
                    THEN [log EXCEPT ![received'.peer] = Append(@, [type |-> "pong"])]
                    ELSE log
          /\ ~received'.threw
          /\ UNCHANGED <<currentState, stateTimestamp, listeners, peers>>]_vars

\* The second of two connections pinged and was answered; the first, whose
\* send throws, was sent nothing more than its welcome.
C14_Witness ==
    /\ Len(peers) = 2
    /\ 1 \in broken
    /\ received = [peer |-> 2, text |-> "{\"type\":\"ping\"}", threw |-> FALSE]
    /\ Len(log[1]) = 1
    /\ log[2] = << [type |-> "welcome", state |-> currentState,
                    timestamp |-> stateTimestamp], [type |-> "pong"] >>

\* The renderer's message handler ran in this step on a "welcome" or "state"
\* message that carries a state other than the one shown.
UpdateStep ==
    /\ ran'.handler = "message"
    /\ ran'.type \in {"welcome", "state"}
    /\ ran'.state # ""
    /\ ran'.state # renderer.currentState

\* C15 as claimed: a "welcome" or "state" message carrying a state other than
\* currentState makes the renderer show that state from frame 0.
C15_UpdateSwitchesState ==
    [][UpdateStep =>
          /\ renderer'.currentState = ran'.state
          /\ renderer'.frameIndex = 0]_vars

\* C15 amended: such a message makes the renderer show the carried state from
\* frame 0 when frames were loaded for that state, and changes neither
\* currentState nor frameIndex when none were.
C15_UpdateSwitchesToLoadedState ==
    [][UpdateStep =>
          IF ran'.state \in DOMAIN StateFrames
          THEN /\ renderer'.currentState = ran'.state
               /\ renderer'.frameIndex = 0
          ELSE /\ renderer'.currentState = renderer.currentState
               /\ renderer'.frameIndex = renderer.frameIndex]_vars

\* A "state" message has just moved the renderer from another state to
\* "success", whose first frame is due.
C15_Witness ==
    /\ ran.handler = "message"
    /\ ran.type = "state"
    /\ ran.state = "success"
    /\ "setTimeout" \in Range(ran.effects)
    /\ renderer.currentState = "success"
    /\ renderer.frameIndex = 0
    /\ terminal.drawn

\* The auto-transition timer armed on entering state A is pending and the
\* renderer holds its handle.
ArmedFor(A, ts) ==
    Timer("transition", TRUE, A, ManifestStates[A].transition_to, Null) \in ts

\* The renderer enters a one-shot state in this step.
EntersOneShot ==
    /\ renderer'.currentState # renderer.currentState
    /\ IsOneShot(renderer'.currentState)

\* The timer armed for the state shown fires in this step: its duration has
\* passed without a change of state.
DurationElapses ==
    /\ ran'.handler = "transition"
    /\ ran'.timer.held
    /\ ran'.timer.armedIn = renderer.currentState

\* C16 as claimed: entering a state with a declared duration and target arms
\* a timer, and when the duration has passed with no update in between,
\* currentState becomes the target and frameIndex 0.
C16_OneShotStateTransitions ==
    /\ [][EntersOneShot => ArmedFor(renderer'.currentState, timers')]_vars
    /\ [][DurationElapses =>
            /\ renderer'.currentState = ran'.timer.target
            /\ renderer'.frameIndex = 0]_vars

\* C16 amended: entering a one-shot state arms a timer for its declared
\* target; when frames were loaded for the target, the timer stays pending
\* while that state is shown and stop() is not called, and when it fires
\* currentState becomes the target and frameIndex 0.
C16_OneShotStateTransitionsToLoadedTarget ==
    /\ [][EntersOneShot => ArmedFor(renderer'.currentState, timers')]_vars
    /\ [][(/\ IsOneShot(renderer.currentState)
           /\ ArmedFor(renderer.currentState, timers)
           /\ ManifestStates[renderer.currentState].transition_to
                 \in DOMAIN StateFrames
           /\ renderer'.currentState = renderer.currentState
           /\ ran'.handler # "stop") =>
              ArmedFor(renderer.currentState, timers')]_vars
    /\ [][(DurationElapses /\ ran'.timer.target \in DOMAIN StateFrames
                           /\ ran'.timer.target # renderer.currentState) =>
            /\ renderer'.currentState = ran'.timer.target
            /\ renderer'.frameIndex = 0]_vars

\* The timer armed on entering "success" has fired and the renderer shows
\* "idle" from frame 0; no timer is pending for "idle".
C16_Witness ==
    /\ ran.handler = "transition"
    /\ ran.timer = Timer("transition", TRUE, "success", "idle", Null)
    /\ ran.effects = <<"clearTimeout">>
    /\ renderer.currentState = "idle"
    /\ renderer.frameIndex = 0
    /\ renderer.isRunning
    /\ \A t \in timers : t.kind # "transition"

PendingTransitions == {t \in timers : t.kind = "transition"}

\* C17: at most one auto-transition timer is pending, whatever the order of
\* incoming messages, setState calls, timer firings, start and stop.
C17_AtMostOnePendingTransition == Cardinality(PendingTransitions) <= 1

\* Entering "success" while the timer armed for "error" was pending cancelled
\* that timer and armed one for "success".
C17_Witness ==
    /\ ran.handler \in {"message", "setState"}
    /\ ran.state = "success"
    /\ ran.effects = <<"clearTimeout", "setTimeout">>
    /\ renderer.isRunning
    /\ PendingTransitions = {Timer("transition", TRUE, "success", "idle", Null)}

\* C18: while the renderer runs, a lost or failed connection is always
\* followed by another attempt: either a socket exists whose close will
\* schedule one, or a reconnect timer is pending.
C18_RunningRendererKeepsReconnecting ==
    renderer.isRunning =>
       \/ \E k \in DOMAIN sockets : sockets[k] \in {"open", "closing"}
       \/ \E t \in timers : t.kind = "reconnect"

\* What stop() on a running renderer is to do, in order.
StopOrder ==
    <<"clearInterval", "clearTimeout", "ws.close", "process.off",
      "clearRenderArea", "SHOW_CURSOR">>

\* C19: stop() on a running renderer cancels the render timer, cancels the
\* pending auto-transition timer, closes the channel, removes the resize
\* listener, clears the render region and shows the cursor, in this order; and
\* once it has returned, no render tick and no auto-transition fires until the
\* renderer is started again.
C19_StopOrderAndQuiescence ==
    /\ [][(ran'.handler = "stop" /\ renderer.isRunning) =>
            /\ ran'.effects =
                  SelectSeq(StopOrder, LAMBDA e :
                     /\ e = "clearTimeout" => renderer.transitionTimeoutId # 0
                     /\ e = "ws.close" => renderer.ws # 0)
            /\ \A t \in timers' : t.kind \notin {"interval", "transition"}
            /\ resizeListeners' = 0
            /\ terminal' = [cursorHidden |-> FALSE, drawn |-> FALSE]]_vars
    /\ [][stopped => ran'.handler \notin {"tick", "transition"}]_vars

\* C20: start() on a running renderer and stop() on one that is not running
\* change nothing and make no call: no second render timer, channel or resize
\* listener, nothing written to the terminal.
C20_StartAndStopAreIdempotent ==
    [][(\/ ran'.handler = "start" /\ renderer.isRunning
        \/ ran'.handler = "stop" /\ ~renderer.isRunning) =>
          /\ ran'.effects = <<>>
          /\ UNCHANGED <<renderer, timers, sockets, resizeListeners, terminal>>]_vars

\* start() has just been called on a running renderer, which still has one
\* render timer, one socket and one resize listener.
C20_Witness ==
    /\ ran.handler = "start"
    /\ ran.effects = <<>>
    /\ renderer.isRunning
    /\ Cardinality({t \in timers : t.kind = "interval"}) = 1
    /\ Cardinality(Created(sockets)) = 1
    /\ resizeListeners = 1
    /\ terminal.cursorHidden

\* The frame list of the state shown is non-empty.
ShownHasFrames ==
    HasFrames(renderer.currentState) /\ StateFrames[renderer.currentState] > 0

\* C21: each render tick advances frameIndex to (frameIndex + 1) modulo the
\* frame count of the current state, and whenever the current state's frame
\* list is non-empty frameIndex is a valid index into it, across ticks, state
\* changes and auto-transitions.
C21_FrameIndexStaysValid ==
    /\ [](ShownHasFrames =>
            /\ renderer.frameIndex >= 0
            /\ renderer.frameIndex < StateFrames[renderer.currentState])
    /\ [][(ran'.handler = "tick" /\ ShownHasFrames) =>
            /\ renderer'.frameIndex =
                   (renderer.frameIndex + 1) % StateFrames[renderer.currentState]
            /\ renderer'.currentState = renderer.currentState]_vars

\* A tick wrapped the index of "success" (two frames) back to 0 while the
\* auto-transition armed on entering "success" was pending.
C21_Witness ==
    /\ ran.handler = "tick"
    /\ renderer.currentState = "success"
    /\ renderer.frameIndex = 0
    /\ renderer.isRunning
    /\ \E t \in timers : t.kind = "transition" /\ t.held /\ t.armedIn = "success"

\* The configuration supplies nothing to load in the mode asked for.
NothingConfigured ==
    \/ loaded.mode = "ascii" /\ (loaded.stateConfig.frames = None
                                 \/ The(loaded.stateConfig.frames) = <<>>)
    \/ loaded.mode = "image" /\ (loaded.stateConfig.image = None
                                 \/ The(loaded.stateConfig.image) = "")

\* C22: loadStateFrames never returns an empty frame list: with no frames
\* (ascii) or no image (image) configured it returns exactly one empty text
\* frame with isImage false; otherwise the configured frames in their
\* configured order, or the single image path.
C22_LoadNeverReturnsEmptyList ==
    (loaded.called /\ ~loaded.rejected) =>
        /\ Len(loaded.frames) > 0
        /\ IF NothingConfigured
           THEN loaded.frames = <<"">> /\ ~loaded.isImage
           ELSE IF loaded.mode = "ascii"
           THEN LET paths == The(loaded.stateConfig.frames)
                IN /\ ~loaded.isImage
                   /\ loaded.frames = [i \in 1..Len(paths) |-> Disk[Join(paths[i])]]
           ELSE /\ loaded.isImage
                /\ loaded.frames = <<Join(The(loaded.stateConfig.image))>>

\* The commands not installed by byteside that a settings file has under event e.
CustomCommandsOf(file, e) ==
    IF file = None THEN {}
    ELSE IF The(file).hooks = None THEN {}
    ELSE LET hooks == The(The(file).hooks)
         IN IF e \notin DOMAIN hooks THEN {}
            ELSE UNION {{h.command : h \in Range(hooks[e][i].hooks)} :
                           i \in 1..Len(hooks[e])} \ BytesideCommands

\* C23: install (with force) and uninstall preserve every hook command that
\* does not start with "byteside trigger" under its original hook event, and
\* every other settings key; the number of byteside hooks is 6 after an
\* install and 0 after an uninstall.
C23_HookCommandsPreserveUserSettings ==
    (hookRun.op # NA) =>
        /\ \A e \in HookEvents \cup {OtherEvent} :
               CustomCommandsOf(original, e) \subseteq CustomCommandsOf(settingsFile, e)
        /\ original # None => The(settingsFile).customKey = The(original).customKey
        /\ (hookRun.op = "install" /\ hookRun.success) =>
               countBytesideHooks(settingsFile) = 6
        /\ hookRun.op = "uninstall" => countBytesideHooks(settingsFile) = 0

\* The state a connection opened after n writes finds in the store.
StateAfter(n) == IF n = 0 THEN "idle" ELSE writes[n].state

\* C24: on every connection the welcome is the first message sent and no
\* "state" message precedes it; the welcome shows the last write made before
\* the open, and every write made after the open follows it as a "state"
\* message, in order, so that no write is missed.
C24_WelcomeFirstAndNoWriteMissed ==
    \A p \in Peers :
       conn[p] = "open" =>
          /\ log[p] # <<>>
          /\ log[p][1].type = "welcome"
          /\ \A i \in 1..Len(log[p]) : log[p][i].type = "state" => i > 1
          /\ StatesOf(log[p]) =
                <<StateAfter(openAt[p])>>
                \o StatesOf(SubSeq(writes, openAt[p] + 1, Len(writes)))

\* One connection opened before any write and one between two writes: the
\* first was sent both writes after its welcome, the second found the first
\* write in its welcome and was sent the second.
C24_Witness ==
    /\ Len(writes) = 2
    /\ writes[1].state # writes[2].state
    /\ writes[1].state # "idle"
    /\ \E p, q \in Registered :
          /\ openAt[p] = 0
          /\ openAt[q] = 1
          /\ Len(log[p]) = 3
          /\ Len(log[q]) = 2
          /\ log[q][1].state = writes[1].state
          /\ log[q][2].state = writes[2].state

\* The "welcome" and "state" messages sent to connection p, in order.
RecordMessagesOf(p) == SelectSeq(log[p], LAMBDA x : x.type \in {"welcome", "state"})

\* C28: between handlers, for every registered connection on which no send
\* has failed, the most recent "welcome" or "state" message sent to it
\* carries the state and the timestamp getState() returns.
C28_LastMessageIsCurrentRecord ==
    \A p \in Registered \ sendFailed :
       LET sent == RecordMessagesOf(p)
       IN /\ sent # <<>>
          /\ sent[Len(sent)].state = currentState
          /\ sent[Len(sent)].timestamp = stateTimestamp

\* Two writes at different times have reached a connection that was open
\* before them, while a send to another registered connection has failed.
C28_Witness ==
    /\ Len(writes) = 2
    /\ sendFailed # {}
    /\ \E p \in Registered \ sendFailed :
          /\ Len(log[p]) = 3
          /\ log[p][3].type = "state"
          /\ log[p][3].timestamp > log[p][2].timestamp
          /\ log[p][2].timestamp > log[p][1].timestamp

\* C25: an auto-transition timer armed on entering state A is pending only
\* while the renderer has stayed in A since then (it is the timer the
\* renderer's field refers to), so a timer whose state was left, also one
\* whose state was entered again later, never changes currentState or
\* frameIndex.
C25_StaleTransitionTimerNeverActs ==
    /\ [](\A t \in PendingTransitions :
             t.armedIn = renderer.currentState /\ t.held)
    /\ [][(/\ ran'.handler = "transition"
           /\ \/ renderer'.currentState # renderer.currentState
              \/ renderer'.frameIndex # renderer.frameIndex) =>
             /\ ran'.timer.armedIn = renderer.currentState
             /\ ran'.timer.held
             /\ renderer'.currentState = ran'.timer.target]_vars

\* The renderer left "success" for "error" while the timer of "success" was
\* pending: that timer was cancelled and the only pending one is of "error".
C25_Witness ==
    /\ renderer.currentState = "error"
    /\ ran.handler \in {"setState", "message"}
    /\ ran.effects = <<"clearTimeout", "setTimeout">>
    /\ PendingTransitions # {}
    /\ \A t \in PendingTransitions : t.armedIn = "error"

\* C26: after stop() has returned and until start() is called again the
\* renderer opens no new channel connection and holds no pending timer of any
\* kind, also when a reconnect had been scheduled before stop() or setState
\* is called after it.
C26_StoppedRendererIsQuiet ==
    /\ [](stopped => timers = {})
    /\ [][(stopped /\ stopped') => Created(sockets') = Created(sockets)]_vars

\* The sockets whose "message" events reach setState: their handlers stay
\* attached for as long as they are open.
LiveChannels == {k \in DOMAIN sockets : sockets[k] = "open"}

\* C27: a renderer has at most one channel connection whose messages can
\* reach setState, for every interleaving of start(), stop(), close events
\* and reconnect timers.
C27_AtMostOneLiveChannel == Cardinality(LiveChannels) <= 1

\* The step ran a handler that passes state s to setState (a call, a channel
\* message, a transition timer), and s is the state shown or a state without
\* loaded frames.
IgnoredSetState ==
    /\ ran'.handler \in {"setState", "message", "transition"}
    /\ \/ ran'.state = renderer.currentState
       \/ ~HasFrames(ran'.state)

\* C29: setState(s) with s the current state, or a state without loaded
\* frames, changes nothing: currentState and frameIndex stay, no timer is
\* cancelled and none is armed, so a one-shot state received again does not
\* postpone its auto-transition.
C29_IgnoredSetStateChangesNothing ==
    [][IgnoredSetState =>
          /\ renderer' = renderer
          /\ timers' = timers \ {ran'.timer}
          /\ ran'.effects = <<>>]_vars

\* "success" arrived again on the channel while the renderer was showing
\* frame 1 of "success": the frame index and the pending timer are as before.
C29_Witness ==
    /\ ran.handler = "message"
    /\ ran.state = "success"
    /\ ran.effects = <<>>
    /\ renderer.currentState = "success"
    /\ renderer.frameIndex = 1
    /\ PendingTransitions = {Timer("transition", TRUE, "success", "idle", Null)}

\* C30: a listener registered by another listener while a notification pass
\* runs ("s" registers "a") is not invoked for the write that started the
\* pass; the next setState call is the first to invoke it.
C30_ListenerAddedInPassWaitsForNextWrite ==
    [][(WriteStep /\ "s" \in Range(listeners) /\ "a" \notin Range(listeners)) =>
          EventsOf(trace', "a") = <<>>]_vars

====
